---- MODULE Spec2Model ----
(***************************************************************************)
(* agent-replay: the trace data model (trace.py), the replay engine        *)
(* (replay.py) and the diff engine (diff.py) as a state machine.           *)
(*                                                                         *)
(* Spec: trace "a" is populated through Trace.add_span and                 *)
(* Span.add_event, then a ReplayEngine is built over it and driven through *)
(* its cursor operations.                                                  *)
(*                                                                         *)
(* SpecDiff: traces "a" and "b" are recorded one after the other through   *)
(* Recorder.event, "a" in the default span and "b" in a span opened with   *)
(* Recorder.span, and diff_traces compares them (or "a" with itself).      *)
(*                                                                         *)
(* SpecRec: one Recorder session of nested Recorder.span blocks and events *)
(* on trace "a", ended by Recorder.finish, which closes and saves the      *)
(* trace; the file is then loaded by ReplayEngine.from_file.               *)
(*                                                                         *)
(* SpecLoad: Trace.load on a trace file of any lines.                      *)
(*                                                                         *)
(* Python lists are sequences; a Python index k is position k + 1.         *)
(***************************************************************************)
EXTENDS Integers, Sequences, FiniteSets, TLC

VARIABLES
    traces,     \* traces[t].spans: the Span list of Trace t, in storage order
    recorder,   \* recorder[t]: the Recorder whose trace is traces[t]
    pc,         \* "rec_a" | "rec_b" | "replay" | "diffed" | "finished" |
                \* "file" | "loaded"
    flat,       \* ReplayEngine._flat: the tape of (span, event) pairs
    position,   \* ReplayEngine._position
    lastOp,     \* name of the last operation called
    lastArg,    \* its argument (jump target, search query), 0 otherwise
    prevPos,    \* _position just before the last engine operation
    result,     \* its return value: << >> for None, <<pair>> for a pair;
                \* in SpecRec the exception the last block exit passed on
    stepping,   \* TRUE while only step() has moved the cursor since it was at 0
    stepLog,    \* while stepping: the pairs step() has returned, in call order
    diff,       \* the DiffResult of the diff_traces call, once pc is "diffed"
    file,       \* the lines of the trace file, in file order
    loaded      \* what Trace.load returned or raised, once it was called

vars == <<traces, recorder, pc, flat, position, lastOp, lastArg, prevPos,
          result, stepping, stepLog, diff, file, loaded>>

ioVars == <<file, loaded>>

engineVars == <<flat, position, lastOp, lastArg, prevPos, result, stepping,
                stepLog>>

-----------------------------------------------------------------------------
(* Bounds of the model *)

\* Spec: spans and events of the replayed trace
MaxSpans == 2
MaxEvents == 3

\* Readings of time.time() are 0..MaxTime
MaxTime == 1

\* SpecDiff: events recorded in one session, and in both sessions together
MaxSessionEvents == 3
MaxDiffEvents == 4

\* SpecRec: spans opened and events recorded in the session
MaxRecSpans == 2
MaxRecEvents == 2

\* SpecLoad: lines of a trace file
MaxLines == 4
MaxPayEvents == 1
MaxMergeSpans == 2

TraceIds == {"a", "b"}

\* Readings of time.time() at the creation of an event
Times == 0..MaxTime

\* The name the n-th span of a replayed trace is opened with: "s", "t", "s", ...
ReplaySpanName(n) == IF n % 2 = 1 THEN "s" ELSE "t"

-----------------------------------------------------------------------------
(* trace.py: EventType, Event, Span, Trace *)

EventType == {"llm_request", "llm_response", "tool_call", "tool_result",
              "decision", "state_change", "error", "log"}

\* Python's None, as returned by dict.get for an absent key
None == "None"

\* An optional field (parent_id, end_time): None is << >>; a span_id is a
\* non-empty tuple and a time t that is set is <<t>>
Unset == << >>

\* An empty dict
EmptyDict == << >>

\* dict.get(key, default) on a record of a file (header, span, event)
Get(d, k, default) == IF k \in DOMAIN d THEN d[k] ELSE default

\* An event payload is a dict kept as the sequence of its items <<key, value>>
\* in insertion order, the order str() and json.dumps write them in.
\* A payload with the one item key: value
Dict1(key, value) == << <<key, value>> >>

\* The places of key in payload d: none or one
PlacesOf(d, key) == {i \in 1..Len(d) : d[i][1] = key}

\* dict.get(key, default) on an event payload
DataGet(d, key, default) ==
    IF PlacesOf(d, key) = {} THEN default
    ELSE d[CHOOSE i \in PlacesOf(d, key) : TRUE][2]

\* Payloads handed to Span.add_event while recording a replayed trace
ReplayInputs ==
    { [event_type |-> "tool_call", data |-> Dict1("tool", "search")] }

\* Payloads handed to Span.add_event while recording traces to be compared
DiffInputs ==
    { [event_type |-> "tool_call",    data |-> Dict1("tool", "search")],
      [event_type |-> "tool_call",    data |-> Dict1("tool", "browse")],
      [event_type |-> "llm_response", data |-> Dict1("content", "hi")],
      [event_type |-> "decision",     data |-> Dict1("choice", "go")] }

\* Event(event_type, timestamp, data, event_id)
Event(type, ts, data, id) ==
    [event_type |-> type, timestamp |-> ts, data |-> data, event_id |-> id]

\* Span(name, span_id, parent_id, start_time) right after construction: open,
\* with an empty events list and empty metadata
Span(name, id, parent_id, start_time) ==
    [name |-> name, span_id |-> id, parent_id |-> parent_id,
     start_time |-> start_time, end_time |-> Unset, events |-> << >>,
     metadata |-> EmptyDict]

\* Trace(trace_id, name, start_time) right after construction: open, no
\* spans, empty metadata
Trace(id, name, start_time) ==
    [trace_id |-> id, name |-> name, start_time |-> start_time,
     end_time |-> Unset, spans |-> << >>, metadata |-> EmptyDict]

\* Trace.event_count
event_count(trace) ==
    LET RECURSIVE Sum(_)
        Sum(i) == IF i = 0 THEN 0 ELSE Len(trace.spans[i].events) + Sum(i - 1)
    IN Sum(Len(trace.spans))

\* Python's sorted()/list.sort() on a list whose keys are `keys`: the order in
\* which the indices 1..Len(keys) come out.  CPython sorts a short list by
\* binary insertion, placing each element after the elements already placed
\* whose key is not greater (bisect-right), which keeps equal keys in input
\* order.
RECURSIVE SortOrder(_)
SortOrder(keys) ==
    IF keys = << >> THEN << >>
    ELSE LET n    == Len(keys)
             prev == SortOrder(SubSeq(keys, 1, n - 1))
             pos  == Cardinality({i \in 1..(n - 1) : keys[prev[i]] <= keys[n]})
         IN SubSeq(prev, 1, pos) \o <<n>> \o SubSeq(prev, pos + 1, n - 1)

\* sorted(xs, key=...) where keys[i] is the key of xs[i]
Sorted(xs, keys) ==
    LET order == SortOrder(keys)
    IN [i \in 1..Len(xs) |-> xs[order[i]]]

\* The loop of Trace.all_events: events.extend(span.events) for each span
RECURSIVE ExtendAll(_, _)
ExtendAll(spans, n) ==
    IF n = 0 THEN << >> ELSE ExtendAll(spans, n - 1) \o spans[n].events

\* Variant of SortOrder that places an element before the elements already
\* placed whose key is equal (bisect-left): an unstable sort
RECURSIVE SortOrderTiesReversed(_)
SortOrderTiesReversed(keys) ==
    IF keys = << >> THEN << >>
    ELSE LET n    == Len(keys)
             prev == SortOrderTiesReversed(SubSeq(keys, 1, n - 1))
             pos  == Cardinality({i \in 1..(n - 1) : keys[prev[i]] < keys[n]})
         IN SubSeq(prev, 1, pos) \o <<n>> \o SubSeq(prev, pos + 1, n - 1)

\* Variant of all_events sorting with the unstable sort
all_events_unstable(trace) ==
    LET events == ExtendAll(trace.spans, Len(trace.spans))
        order  == SortOrderTiesReversed(
                      [i \in 1..Len(events) |-> events[i].timestamp])
    IN [i \in 1..Len(events) |-> events[order[i]]]

\* Trace.all_events
all_events(trace) ==
    LET events == ExtendAll(trace.spans, Len(trace.spans))
    IN Sorted(events, [i \in 1..Len(events) |-> events[i].timestamp])

-----------------------------------------------------------------------------
(* Recording: Trace.add_span and Span.add_event *)

\* uuid.uuid4().hex[:12], the default span_id and event_id: an identifier no
\* other object carries.  The model takes the place the new object gets (its
\* trace and span number, and its number within the span for an event) as
\* that identifier.
NewSpanId(trace) == <<trace.trace_id, Len(trace.spans) + 1>>
NewEventId(trace, i) == <<trace.trace_id, i, Len(trace.spans[i].events) + 1>>

\* Trace.add_span(name, parent_id), ts being the reading of time.time(): the
\* trace with the new span appended
add_span(trace, name, parent_id, ts) ==
    [trace EXCEPT
        !.spans = Append(@, Span(name, NewSpanId(trace), parent_id, ts))]

\* Span.add_event(event_type, data) on span number i of the trace, ts being
\* the reading of time.time(): the trace with the new event appended
add_event(trace, i, in, ts) ==
    [trace EXCEPT !.spans[i].events =
        Append(@, Event(in.event_type, ts, in.data, NewEventId(trace, i)))]

\* A call of Trace.add_span(name) on trace t, ts being the reading of
\* time.time()
AddSpan(t, name, ts) ==
    /\ traces' = [traces EXCEPT ![t] = add_span(@, name, Unset, ts)]
    /\ UNCHANGED <<recorder, pc, engineVars, diff, ioVars>>

\* A call of Span.add_event on span number i of trace t
AddEvent(t, i, in, ts) ==
    /\ traces' = [traces EXCEPT ![t] = add_event(@, i, in, ts)]
    /\ UNCHANGED <<recorder, pc, engineVars, diff, ioVars>>

-----------------------------------------------------------------------------
(* recorder.py: Recorder *)

\* Recorder.__init__: no current span (None is 0), an empty span stack.  A
\* span is held as its number in trace.spans.  output_path is TRUE when a
\* path was given.  blocks holds the frames of the Recorder.span generators
\* suspended at their yield, innermost last: the locals s and prev.
Recorder(output_path) ==
    [_span_stack |-> << >>, _current_span |-> 0, output_path |-> output_path,
     blocks |-> << >>]

\* Recorder.event(event_type, data) on the recorder of trace t, _ensure_span
\* included: without a current span a span "default" is added to the trace,
\* pushed and made current; the event goes to the current span.  time.time()
\* is read for the start_time of a span "default" (the reading `start`, not
\* taken when a span is current) and then for the timestamp of the event (ts).
RecorderEvent(t, in, start, ts) ==
    IF recorder[t]._current_span = 0
    THEN LET s == Len(traces[t].spans) + 1 IN
         /\ traces' = [traces EXCEPT
                ![t] = add_event(add_span(@, "default", Unset, start), s, in,
                                 ts)]
         /\ recorder' = [recorder EXCEPT
                ![t]._span_stack = Append(@, s),
                ![t]._current_span = s]
         /\ UNCHANGED <<pc, engineVars, diff, ioVars>>
    ELSE /\ traces' = [traces EXCEPT
                ![t] = add_event(@, recorder[t]._current_span, in, ts)]
         /\ UNCHANGED <<recorder, pc, engineVars, diff, ioVars>>

\* Variant of ParentId that hands no parent to add_span
ParentIdNone(t) == Unset

\* The parent_id Recorder.span hands to add_span:
\* self._current_span.span_id if self._current_span else None
ParentId(t) ==
    IF recorder[t]._current_span # 0
    THEN traces[t].spans[recorder[t]._current_span].span_id
    ELSE Unset

\* Recorder.span(name) up to its yield, on the recorder of trace t, ts being
\* the reading of time.time(): the span is added to the trace with the
\* current span as its parent, pushed and made current
RecorderSpan(t, name, ts) ==
    LET s == Len(traces[t].spans) + 1 IN
    /\ traces' = [traces EXCEPT ![t] = add_span(@, name, ParentId(t), ts)]
    /\ recorder' = [recorder EXCEPT
           ![t]._span_stack = Append(@, s),
           ![t]._current_span = s,
           ![t].blocks = Append(@, [s |-> s,
                                    prev |-> recorder[t]._current_span])]
    /\ UNCHANGED <<engineVars, diff, ioVars>>

\* Span.close, ts being the reading of time.time()
span_close(span, ts) == [span EXCEPT !.end_time = <<ts>>]

\* Variant of the finally clause of Recorder.span that leaves no current span
RecorderSpanExitToNone(t, ts) ==
    LET n == Len(recorder[t].blocks)
        frame == recorder[t].blocks[n]
    IN /\ traces' = [traces EXCEPT ![t].spans[frame.s] = span_close(@, ts)]
       /\ recorder' = [recorder EXCEPT
              ![t]._span_stack = SubSeq(@, 1, Len(@) - 1),
              ![t]._current_span = 0,
              ![t].blocks = SubSeq(@, 1, n - 1)]
       /\ UNCHANGED <<flat, position, lastOp, lastArg, prevPos, stepping,
                      stepLog, diff, ioVars>>

\* Recorder.span from its yield on, for the innermost block of the recorder
\* of trace t: the finally clause, run when the body returns and when it
\* raises.  The span is closed, the stack popped, the current span restored.
RecorderSpanExit(t, ts) ==
    LET n == Len(recorder[t].blocks)
        frame == recorder[t].blocks[n]
    IN /\ traces' = [traces EXCEPT ![t].spans[frame.s] = span_close(@, ts)]
       /\ recorder' = [recorder EXCEPT
              ![t]._span_stack = SubSeq(@, 1, Len(@) - 1),
              ![t]._current_span = frame.prev,
              ![t].blocks = SubSeq(@, 1, n - 1)]
       /\ UNCHANGED <<flat, position, lastOp, lastArg, prevPos, stepping,
                      stepLog, diff, ioVars>>

-----------------------------------------------------------------------------
(* trace.py: close, to_dict / from_dict, save / load *)

\* Variant of Trace.close that stamps the trace only
trace_close_trace_only(trace, ts, closes) == [trace EXCEPT !.end_time = <<ts>>]

\* Trace.close: end_time is set on the trace, ts being the reading of
\* time.time(), and on every span whose end_time is None, closes[i] being the
\* reading Span.close takes for span number i (none is taken for a span that
\* is closed already)
trace_close(trace, ts, closes) ==
    [trace EXCEPT
        !.end_time = <<ts>>,
        !.spans = [i \in 1..Len(@) |->
                      IF @[i].end_time = Unset
                      THEN span_close(@[i], closes[i])
                      ELSE @[i]]]

\* An exception raised instead of a value returned
Raise(type, arg) == [raised |-> type, arg |-> arg]
IsRaised(x) == "raised" \in DOMAIN x

\* A line of a trace file: json.dumps(record) + "\n", or a line that is
\* empty once stripped.  The records of the model hold str keys and str,
\* number, None, list and dict values, which json.loads gives back as
\* json.dumps took them.
JsonLine(record) == [blank |-> FALSE, json |-> record]
BlankLine == [blank |-> TRUE]

\* Event.to_dict: asdict(self) with event_type replaced by its value
event_to_dict(e) ==
    [event_type |-> e.event_type, timestamp |-> e.timestamp, data |-> e.data,
     event_id |-> e.event_id]

\* Variant of Span.to_dict that leaves the events out
span_to_dict_no_events(span) ==
    [name |-> span.name, span_id |-> span.span_id,
     parent_id |-> span.parent_id, start_time |-> span.start_time,
     end_time |-> span.end_time, metadata |-> span.metadata]

\* Span.to_dict
span_to_dict(span) ==
    [name |-> span.name, span_id |-> span.span_id,
     parent_id |-> span.parent_id, start_time |-> span.start_time,
     end_time |-> span.end_time,
     events |-> [j \in 1..Len(span.events) |-> event_to_dict(span.events[j])],
     metadata |-> span.metadata]

\* The header record Trace.save writes first
trace_header(trace) ==
    [type |-> "trace_header", trace_id |-> trace.trace_id, name |-> trace.name,
     start_time |-> trace.start_time, end_time |-> trace.end_time,
     metadata |-> trace.metadata]

\* {"type": "span", **span.to_dict()}
span_record(span) == span_to_dict(span) @@ [type |-> "span"]

\* Trace.save(path): the lines written, the header first, then one line for
\* each span in storage order
save(trace) ==
    <<JsonLine(trace_header(trace))>>
        \o [i \in 1..Len(trace.spans) |-> JsonLine(span_record(trace.spans[i]))]

\* uuid.uuid4().hex[:12] drawn while loading, for the event at place `at`
LoadedEventId(at) == <<"uuid">> \o at

\* Variant of Event.from_dict that draws a new event_id for every event
event_from_dict_new_id(d, at) ==
    IF "event_type" \notin DOMAIN d THEN Raise("KeyError", "event_type")
    ELSE IF d.event_type \notin EventType THEN Raise("ValueError", d.event_type)
    ELSE IF "timestamp" \notin DOMAIN d THEN Raise("KeyError", "timestamp")
    ELSE Event(d.event_type, d.timestamp, Get(d, "data", EmptyDict),
               LoadedEventId(at))

\* Event.from_dict(d); `at` is the place of the event in the file.  A missing
\* required key raises KeyError, a value that is no EventType ValueError.
event_from_dict(d, at) ==
    IF "event_type" \notin DOMAIN d THEN Raise("KeyError", "event_type")
    ELSE IF d.event_type \notin EventType THEN Raise("ValueError", d.event_type)
    ELSE IF "timestamp" \notin DOMAIN d THEN Raise("KeyError", "timestamp")
    ELSE Event(d.event_type, d.timestamp, Get(d, "data", EmptyDict),
               Get(d, "event_id", LoadedEventId(at)))

\* Span.from_dict(d); `at` is the number of the line in the file.  The
\* arguments are evaluated in the order written, so the first missing
\* required key or bad event is the one that raises.
span_from_dict(d, at) ==
    IF "name" \notin DOMAIN d THEN Raise("KeyError", "name")
    ELSE IF "span_id" \notin DOMAIN d THEN Raise("KeyError", "span_id")
    ELSE IF "start_time" \notin DOMAIN d THEN Raise("KeyError", "start_time")
    ELSE LET ds == Get(d, "events", << >>)
             es == [j \in 1..Len(ds) |-> event_from_dict(ds[j], <<at, j>>)]
             bad == {j \in 1..Len(es) : IsRaised(es[j])}
         IN IF bad # {} THEN es[CHOOSE j \in bad : \A k \in bad : j <= k]
            ELSE [name |-> d.name, span_id |-> d.span_id,
                  parent_id |-> Get(d, "parent_id", Unset),
                  start_time |-> d.start_time,
                  end_time |-> Get(d, "end_time", Unset),
                  events |-> es,
                  metadata |-> Get(d, "metadata", EmptyDict)]

\* record.pop(key, None): the record without the key
Pop(record, key) == [k \in DOMAIN record \ {key} |-> record[k]]

\* uuid.uuid4().hex[:16] drawn by Trace.load for a header without trace_id
LoadedTraceId == "uuid"

\* The loop of Trace.load over the first n lines: the spans and the header
\* collected, or the exception raised on the way
RECURSIVE LoadLines(_, _)
LoadLines(lines, n) ==
    IF n = 0 THEN [spans |-> << >>, header |-> EmptyDict]
    ELSE LET acc  == LoadLines(lines, n - 1)
             line == lines[n]
         IN IF IsRaised(acc) THEN acc
            ELSE IF line.blank THEN acc
            ELSE LET record == line.json IN
                 IF Get(record, "type", None) = "trace_header"
                 THEN [acc EXCEPT !.header = record]
                 ELSE IF Get(record, "type", None) = "span"
                 THEN LET span == span_from_dict(Pop(record, "type"), n)
                      IN IF IsRaised(span) THEN span
                         ELSE [acc EXCEPT !.spans = Append(@, span)]
                 ELSE acc

\* Variant of load that stops reading at the first line that is blank
load_until_blank(lines) ==
    LET blanks == {n \in 1..Len(lines) : lines[n].blank}
        stop == IF blanks = {} THEN Len(lines)
                ELSE (CHOOSE n \in blanks : \A m \in blanks : n <= m) - 1
        acc == LoadLines(lines, stop)
    IN IF IsRaised(acc) THEN acc
       ELSE [trace_id |-> Get(acc.header, "trace_id", LoadedTraceId),
             name |-> Get(acc.header, "name", "unnamed"),
             start_time |-> Get(acc.header, "start_time", 0),
             end_time |-> Get(acc.header, "end_time", Unset),
             spans |-> acc.spans,
             metadata |-> Get(acc.header, "metadata", EmptyDict)]

\* Trace.load(path) on a file holding `lines`: the Trace, or the exception
\* that leaves the call
load(lines) ==
    LET acc == LoadLines(lines, Len(lines))
    IN IF IsRaised(acc) THEN acc
       ELSE [trace_id |-> Get(acc.header, "trace_id", LoadedTraceId),
             name |-> Get(acc.header, "name", "unnamed"),
             start_time |-> Get(acc.header, "start_time", 0),
             end_time |-> Get(acc.header, "end_time", Unset),
             spans |-> acc.spans,
             metadata |-> Get(acc.header, "metadata", EmptyDict)]

-----------------------------------------------------------------------------
(* replay.py: ReplayEngine *)

\* One loop pass of _build_flat_list over span number i: its (span, event)
\* pairs.  The span of a pair is the Span object, held as its index in
\* trace.spans.
SpanPairs(trace, i) ==
    [j \in 1..Len(trace.spans[i].events) |->
        [span |-> i, event |-> trace.spans[i].events[j]]]

RECURSIVE AllPairs(_, _)
AllPairs(trace, n) ==
    IF n = 0 THEN << >> ELSE AllPairs(trace, n - 1) \o SpanPairs(trace, n)

\* Variant of _build_flat_list that leaves the pairs in storage order
BuildFlatListUnsorted(trace) == AllPairs(trace, Len(trace.spans))

\* ReplayEngine._build_flat_list
BuildFlatList(trace) ==
    LET pairs == AllPairs(trace, Len(trace.spans))
    IN Sorted(pairs, [i \in 1..Len(pairs) |-> pairs[i].event.timestamp])

\* ReplayEngine.total_steps
total_steps == Len(flat)

\* Variant of has_next that stops one entry early
has_next_short == position < Len(flat) - 1

\* ReplayEngine.has_next / has_prev
has_next == position < Len(flat)
has_prev == position > 0

\* self._flat[k] for a Python index k: 0-based, a negative k counting from
\* the end
FlatAt(k) == IF k < 0 THEN flat[Len(flat) + k + 1] ELSE flat[k + 1]

\* ReplayEngine.__init__(trace) over trace "a"
Construct ==
    /\ pc = "rec_a"
    /\ pc' = "replay"
    /\ flat' = BuildFlatList(traces["a"])
    /\ position' = 0
    /\ lastOp' = "init" /\ lastArg' = 0 /\ prevPos' = 0 /\ result' = << >>
    /\ stepping' = TRUE /\ stepLog' = << >>
    /\ UNCHANGED <<traces, recorder, diff, ioVars>>

\* ReplayEngine.step
Step ==
    /\ pc = "replay"
    /\ lastOp' = "step" /\ lastArg' = 0 /\ prevPos' = position
    /\ IF ~has_next
       THEN /\ result' = << >>
            /\ UNCHANGED <<position, stepLog>>
       ELSE /\ result' = <<FlatAt(position)>>
            /\ position' = position + 1
            /\ stepLog' = IF stepping THEN Append(stepLog, FlatAt(position))
                                      ELSE stepLog
    /\ UNCHANGED <<traces, recorder, pc, flat, stepping, diff, ioVars>>

\* Variant of step_back that returns the previous pair without moving
StepBackNoMove ==
    /\ pc = "replay"
    /\ lastOp' = "step_back" /\ lastArg' = 0 /\ prevPos' = position
    /\ result' = IF ~has_prev THEN << >> ELSE <<FlatAt(position - 1)>>
    /\ UNCHANGED <<traces, recorder, pc, flat, position, stepping, stepLog,
                   diff, ioVars>>

\* ReplayEngine.step_back
StepBack ==
    /\ pc = "replay"
    /\ lastOp' = "step_back" /\ lastArg' = 0 /\ prevPos' = position
    /\ IF ~has_prev
       THEN /\ result' = << >>
            /\ UNCHANGED <<position, stepping, stepLog>>
       ELSE /\ position' = position - 1
            /\ result' = <<FlatAt(position - 1)>>
            /\ stepping' = (position - 1 = 0)
            /\ stepLog' = << >>
    /\ UNCHANGED <<traces, recorder, pc, flat, diff, ioVars>>

\* ReplayEngine.has_next(): the result is the one-element tuple of the bool
HasNext ==
    /\ pc = "replay"
    /\ lastOp' = "has_next" /\ lastArg' = 0 /\ prevPos' = position
    /\ result' = <<has_next>>
    /\ UNCHANGED <<traces, recorder, pc, flat, position, stepping, stepLog,
                   diff, ioVars>>

\* ReplayEngine.has_prev(): the result is the one-element tuple of the bool
HasPrev ==
    /\ pc = "replay"
    /\ lastOp' = "has_prev" /\ lastArg' = 0 /\ prevPos' = position
    /\ result' = <<has_prev>>
    /\ UNCHANGED <<traces, recorder, pc, flat, position, stepping, stepLog,
                   diff, ioVars>>

\* The value ReplayEngine.peek returns with the cursor at `at`
PeekValue(at) == IF ~(at < Len(flat)) THEN << >> ELSE <<FlatAt(at)>>

\* Variant of peek that moves the cursor past the pair it returns
PeekAdvancing ==
    /\ pc = "replay"
    /\ lastOp' = "peek" /\ lastArg' = 0 /\ prevPos' = position
    /\ result' = PeekValue(position)
    /\ position' = IF has_next THEN position + 1 ELSE position
    /\ UNCHANGED <<traces, recorder, pc, flat, stepping, stepLog, diff, ioVars>>

\* ReplayEngine.peek
Peek ==
    /\ pc = "replay"
    /\ lastOp' = "peek" /\ lastArg' = 0 /\ prevPos' = position
    /\ result' = PeekValue(position)
    /\ UNCHANGED <<traces, recorder, pc, flat, position, stepping, stepLog,
                   diff, ioVars>>

\* Variant of the test of jump without the lower bound
JumpInRangeNoLowerBound(target) == Len(flat) > 0 /\ target < Len(flat)

\* The test of ReplayEngine.jump: 0 <= position < len(self._flat)
JumpInRange(target) == 0 <= target /\ target < Len(flat)

\* Variant of jump that returns the pair at the target without moving there
JumpNoMove(target) ==
    /\ pc = "replay"
    /\ lastOp' = "jump" /\ lastArg' = target /\ prevPos' = position
    /\ result' = IF JumpInRange(target) THEN <<FlatAt(target)>> ELSE << >>
    /\ UNCHANGED <<traces, recorder, pc, flat, position, stepping, stepLog,
                   diff, ioVars>>

\* Variant of jump that clamps an out-of-range target to the nearest end
JumpClamped(target) ==
    /\ pc = "replay"
    /\ lastOp' = "jump" /\ lastArg' = target /\ prevPos' = position
    /\ IF JumpInRange(target)
       THEN /\ position' = target
            /\ result' = <<FlatAt(target)>>
       ELSE /\ position' = IF target < 0 THEN 0 ELSE Len(flat)
            /\ result' = << >>
    /\ stepping' = (position' = 0)
    /\ stepLog' = << >>
    /\ UNCHANGED <<traces, recorder, pc, flat, diff, ioVars>>

\* ReplayEngine.jump(target)
Jump(target) ==
    /\ pc = "replay"
    /\ lastOp' = "jump" /\ lastArg' = target /\ prevPos' = position
    /\ IF JumpInRange(target)
       THEN /\ position' = target
            /\ result' = <<FlatAt(target)>>
            /\ stepping' = (target = 0)
            /\ stepLog' = << >>
       ELSE /\ result' = << >>
            /\ UNCHANGED <<position, stepping, stepLog>>
    /\ UNCHANGED <<traces, recorder, pc, flat, diff, ioVars>>

\* ReplayEngine.reset
Reset ==
    /\ pc = "replay"
    /\ lastOp' = "reset" /\ lastArg' = 0 /\ prevPos' = position
    /\ position' = 0
    /\ result' = << >>
    /\ stepping' = TRUE /\ stepLog' = << >>
    /\ UNCHANGED <<traces, recorder, pc, flat, diff, ioVars>>

\* The list ReplayEngine.current_span_events returns over `trace`
SpanEventsValue(trace) ==
    IF flat = << >> \/ position >= Len(flat) THEN << >>
    ELSE LET m == IF position < Len(flat) - 1 THEN position ELSE Len(flat) - 1
             current_span == trace.spans[FlatAt(m).span]
         IN SelectSeq(flat, LAMBDA p :
                trace.spans[p.span].span_id = current_span.span_id)

\* ReplayEngine.current_span_events
CurrentSpanEvents ==
    /\ pc = "replay"
    /\ lastOp' = "current_span_events" /\ lastArg' = 0 /\ prevPos' = position
    /\ result' = SpanEventsValue(traces["a"])
    /\ UNCHANGED <<traces, recorder, pc, flat, position, stepping, stepLog,
                   diff, ioVars>>

-----------------------------------------------------------------------------
(* Text, for ReplayEngine.search: a Python str is the tuple of its characters *)

\* The characters of the strings the model uses
Chars(s) ==
    CASE
         s = "s" -> <<"s">>
      [] s = "t" -> <<"t">>
      [] s = "default" -> <<"d", "e", "f", "a", "u", "l", "t">>
      [] s = "llm_request" -> <<"l", "l", "m", "_", "r", "e", "q", "u", "e", "s", "t">>
      [] s = "llm_response" -> <<"l", "l", "m", "_", "r", "e", "s", "p", "o", "n", "s", "e">>
      [] s = "tool_call" -> <<"t", "o", "o", "l", "_", "c", "a", "l", "l">>
      [] s = "tool_result" -> <<"t", "o", "o", "l", "_", "r", "e", "s", "u", "l", "t">>
      [] s = "decision" -> <<"d", "e", "c", "i", "s", "i", "o", "n">>
      [] s = "state_change" -> <<"s", "t", "a", "t", "e", "_", "c", "h", "a", "n", "g", "e">>
      [] s = "error" -> <<"e", "r", "r", "o", "r">>
      [] s = "log" -> <<"l", "o", "g">>
      [] s = "tool" -> <<"t", "o", "o", "l">>
      [] s = "search" -> <<"s", "e", "a", "r", "c", "h">>
      [] s = "browse" -> <<"b", "r", "o", "w", "s", "e">>
      [] s = "content" -> <<"c", "o", "n", "t", "e", "n", "t">>
      [] s = "hi" -> <<"h", "i">>
      [] s = "choice" -> <<"c", "h", "o", "i", "c", "e">>
      [] s = "go" -> <<"g", "o">>
      [] s = "TOOL" -> <<"T", "O", "O", "L">>
      [] s = "t " -> <<"t", " ">>

UpperCase == <<"A", "B", "C", "D", "E", "F", "G", "H", "I", "J", "K", "L", "M", "N", "O", "P", "Q", "R", "S", "T", "U", "V", "W", "X", "Y", "Z">>
LowerCase == <<"a", "b", "c", "d", "e", "f", "g", "h", "i", "j", "k", "l", "m", "n", "o", "p", "q", "r", "s", "t", "u", "v", "w", "x", "y", "z">>

\* str.lower() on one character
ToLower ==
    [c \in {UpperCase[u] : u \in 1..Len(UpperCase)} |->
        LowerCase[CHOOSE u \in 1..Len(UpperCase) : UpperCase[u] = c]]

\* str.lower()
lower(cs) ==
    [i \in 1..Len(cs) |-> IF cs[i] \in DOMAIN ToLower THEN ToLower[cs[i]]
                                                      ELSE cs[i]]

\* Python's `needle in hay` on strings
Contains(hay, needle) ==
    \E i \in 0..(Len(hay) - Len(needle)) :
        \A j \in 1..Len(needle) : hay[i + j] = needle[j]

\* repr() of a str without quotes in it
StrRepr(s) == <<"'">> \o Chars(s) \o <<"'">>

\* str() of a payload dict with str values: {'k': 'v', ...}, the first n
\* items in insertion order
RECURSIVE ItemsRepr(_, _)
ItemsRepr(d, n) ==
    IF n = 0 THEN << >>
    ELSE (IF n = 1 THEN << >> ELSE ItemsRepr(d, n - 1) \o <<",", " ">>)
            \o StrRepr(d[n][1]) \o <<":", " ">> \o StrRepr(d[n][2])

DictRepr(d) == <<"{">> \o ItemsRepr(d, Len(d)) \o <<"}">>

\* The f-string of ReplayEngine.search for one tape pair of `trace`
Searchable(trace, p) ==
    Chars(trace.spans[p.span].name) \o <<" ">> \o Chars(p.event.event_type)
        \o <<" ">> \o DictRepr(p.event.data)

\* The list ReplayEngine.search(query) returns over `trace`: Python indices
SearchValue(trace, query) ==
    LET query_lower == lower(Chars(query))
        hit(i) == Contains(lower(Searchable(trace, flat[i + 1])), query_lower)
        RECURSIVE scan(_)
        scan(n) == IF n = 0 THEN << >>
                   ELSE scan(n - 1) \o (IF hit(n - 1) THEN <<n - 1>> ELSE << >>)
    IN scan(Len(flat))

\* ReplayEngine.search(query)
Search(query) ==
    /\ pc = "replay"
    /\ lastOp' = "search" /\ lastArg' = query /\ prevPos' = position
    /\ result' = SearchValue(traces["a"], query)
    /\ UNCHANGED <<traces, recorder, pc, flat, position, stepping, stepLog,
                   diff, ioVars>>

-----------------------------------------------------------------------------
(* diff.py: Divergence, DiffResult, diff_traces *)

\* Divergence(position, description, trace_a_event, trace_b_event,
\* trace_a_span, trace_b_span, severity); an event that is None is << >>, one
\* that is set is <<event>>; the defaults of the span names are "".  The
\* description is held as the tuple of its format string's parts.
Divergence(pos, descr, a_event, b_event, a_span, b_span, sev) ==
    [position |-> pos, description |-> descr,
     trace_a_event |-> a_event, trace_b_event |-> b_event,
     trace_a_span |-> a_span, trace_b_span |-> b_span, severity |-> sev]

\* diff_traces._span_for_event: the name of the first span holding an event
\* with the event_id of `event`
_span_for_event(trace, event) ==
    LET holds(n) == \E j \in 1..Len(trace.spans[n].events) :
                        trace.spans[n].events[j].event_id = event.event_id
        owners == {n \in 1..Len(trace.spans) : holds(n)}
    IN IF owners = {} THEN "unknown"
       ELSE trace.spans[CHOOSE n \in owners : \A o \in owners : n <= o].name

\* The divergence diff_traces appends at index i when trace A is exhausted
ExtraInB(trace_b, eb, i) ==
    Divergence(i, <<"Trace B has extra event", eb.event_type>>,
               << >>, <<eb>>, "", _span_for_event(trace_b, eb), "warning")

\* Variant of ExtraInA that leaves the severity at the default of Divergence
ExtraInADefaultSeverity(trace_a, ea, i) ==
    Divergence(i, <<"Trace A has extra event", ea.event_type>>,
               <<ea>>, << >>, _span_for_event(trace_a, ea), "", "info")

\* The divergence diff_traces appends at index i when trace B is exhausted
ExtraInA(trace_a, ea, i) ==
    Divergence(i, <<"Trace A has extra event", ea.event_type>>,
               <<ea>>, << >>, _span_for_event(trace_a, ea), "", "warning")

\* Variant of TypeDiffers that compares the events, not their types
EventDiffers(ea, eb) == ea # eb

\* The tests of diff_traces on two events at the same index
TypeDiffers(ea, eb) == ea.event_type # eb.event_type

\* Variant of ToolDiffers that reads a key "name"
ToolDiffersWrongKey(ea, eb) ==
    DataGet(ea.data, "name", None) # DataGet(eb.data, "name", None)

ToolDiffers(ea, eb) ==
    DataGet(ea.data, "tool", None) # DataGet(eb.data, "tool", None)

ContentDiffers(ea, eb) ==
    DataGet(ea.data, "content", "") # DataGet(eb.data, "content", "")

\* Variant of ChoiceDiffers that reads a key "description"
ChoiceDiffersWrongKey(ea, eb) ==
    DataGet(ea.data, "description", None)
        # DataGet(eb.data, "description", None)

ChoiceDiffers(ea, eb) ==
    DataGet(ea.data, "choice", None) # DataGet(eb.data, "choice", None)

\* Variant of DiffAt without the `continue` after a type divergence: the
\* payload comparison of the type of the event of trace A still runs
DiffAtFallThrough(trace_a, trace_b, events_a, events_b, i) ==
    IF ~(i < Len(events_a)) THEN
        << ExtraInB(trace_b, events_b[i + 1], i) >>
    ELSE IF ~(i < Len(events_b)) THEN
        << ExtraInA(trace_a, events_a[i + 1], i) >>
    ELSE
        LET ea == events_a[i + 1]
            eb == events_b[i + 1]
            both(descr, sev) ==
                << Divergence(i, descr, <<ea>>, <<eb>>,
                              _span_for_event(trace_a, ea),
                              _span_for_event(trace_b, eb), sev) >>
            typed == IF TypeDiffers(ea, eb)
                     THEN both(<<"Event type divergence", ea.event_type,
                                 eb.event_type>>, "critical")
                     ELSE << >>
            payload ==
                IF ea.event_type = "tool_call" /\ ToolDiffers(ea, eb)
                THEN both(<<"Different tool called",
                            DataGet(ea.data, "tool", None),
                            DataGet(eb.data, "tool", None)>>, "critical")
                ELSE IF ea.event_type = "llm_response" /\ ContentDiffers(ea, eb)
                THEN both(<<"LLM response content differs">>, "info")
                ELSE IF ea.event_type = "decision" /\ ChoiceDiffers(ea, eb)
                THEN both(<<"Decision divergence",
                            DataGet(ea.data, "choice", None),
                            DataGet(eb.data, "choice", None)>>, "critical")
                ELSE << >>
        IN typed \o payload

\* The body of the loop of diff_traces for Python index i: the divergences it
\* appends (none or one)
DiffAt(trace_a, trace_b, events_a, events_b, i) ==
    IF ~(i < Len(events_a)) THEN
        << ExtraInB(trace_b, events_b[i + 1], i) >>
    ELSE IF ~(i < Len(events_b)) THEN
        << ExtraInA(trace_a, events_a[i + 1], i) >>
    ELSE
        LET ea == events_a[i + 1]
            eb == events_b[i + 1]
            both(descr, sev) ==
                << Divergence(i, descr, <<ea>>, <<eb>>,
                              _span_for_event(trace_a, ea),
                              _span_for_event(trace_b, eb), sev) >>
        IN IF TypeDiffers(ea, eb) THEN
               both(<<"Event type divergence", ea.event_type, eb.event_type>>,
                    "critical")
           ELSE IF ea.event_type = "tool_call" THEN
               IF ToolDiffers(ea, eb)
               THEN both(<<"Different tool called",
                           DataGet(ea.data, "tool", None),
                           DataGet(eb.data, "tool", None)>>, "critical")
               ELSE << >>
           ELSE IF ea.event_type = "llm_response" THEN
               IF ContentDiffers(ea, eb)
               THEN both(<<"LLM response content differs">>, "info")
               ELSE << >>
           ELSE IF ea.event_type = "decision" THEN
               IF ChoiceDiffers(ea, eb)
               THEN both(<<"Decision divergence",
                           DataGet(ea.data, "choice", None),
                           DataGet(eb.data, "choice", None)>>, "critical")
               ELSE << >>
           ELSE << >>

\* The loop of diff_traces: for i in range(n)
RECURSIVE DiffLoop(_, _, _, _, _)
DiffLoop(trace_a, trace_b, events_a, events_b, n) ==
    IF n = 0 THEN << >>
    ELSE DiffLoop(trace_a, trace_b, events_a, events_b, n - 1)
             \o DiffAt(trace_a, trace_b, events_a, events_b, n - 1)

\* DiffResult.critical_count over a list of divergences
CriticalCount(divergences) ==
    Cardinality({k \in 1..Len(divergences) :
                    divergences[k].severity = "critical"})

\* The summary diff_traces generates, as the tuple of its parts
Summary(divergences) ==
    LET n == Len(divergences) IN
    IF n = 0 THEN <<"Traces are identical in structure and content.">>
    ELSE <<"Found", n, "divergence(s)", CriticalCount(divergences), "critical",
           n - CriticalCount(divergences), "informational">>

\* diff_traces(trace_a, trace_b): the DiffResult
diff_traces(trace_a, trace_b) ==
    LET events_a == all_events(trace_a)
        events_b == all_events(trace_b)
        max_len  == IF Len(events_a) >= Len(events_b) THEN Len(events_a)
                                                       ELSE Len(events_b)
        divs     == DiffLoop(trace_a, trace_b, events_a, events_b, max_len)
    IN [trace_a_id |-> trace_a.trace_id, trace_b_id |-> trace_b.trace_id,
        divergences |-> divs, summary |-> Summary(divs)]

\* DiffResult.identical and DiffResult.critical_count
identical(r) == Len(r.divergences) = 0
critical_count(r) == CriticalCount(r.divergences)

\* The first recording session ends; the second one starts by opening a span
\* "s" on its recorder, in which its events are recorded
NextSession ==
    /\ pc = "rec_a"
    /\ pc' = "rec_b"
    /\ RecorderSpan("b", "s", 0)

\* diff_traces(trace_a, trace_a): the first trace is compared with itself
DiffSelf ==
    /\ pc = "rec_a"
    /\ pc' = "diffed"
    /\ diff' = diff_traces(traces["a"], traces["a"])
    /\ UNCHANGED <<traces, recorder, engineVars, ioVars>>

\* diff_traces(trace_a, trace_b) is called on the two recorded traces
Diff ==
    /\ pc = "rec_b"
    /\ pc' = "diffed"
    /\ diff' = diff_traces(traces["a"], traces["b"])
    /\ UNCHANGED <<traces, recorder, engineVars, ioVars>>

-----------------------------------------------------------------------------
Init ==
    /\ traces = [t \in TraceIds |-> Trace(t, "agent-run", 0)]
    /\ recorder = [t \in TraceIds |-> Recorder(FALSE)]
    /\ file = << >>
    /\ loaded = << >>
    /\ pc = "rec_a"
    /\ flat = << >>
    /\ position = 0
    /\ lastOp = "none" /\ lastArg = 0 /\ prevPos = 0 /\ result = << >>
    /\ stepping = FALSE /\ stepLog = << >>
    /\ diff = [trace_a_id |-> "a", trace_b_id |-> "a", divergences |-> << >>,
               summary |-> << >>]

RecordA ==
    /\ pc = "rec_a"
    /\ \/ /\ Len(traces["a"].spans) < MaxSpans
          /\ AddSpan("a", ReplaySpanName(Len(traces["a"].spans) + 1), 0)
       \/ \E i \in 1..Len(traces["a"].spans), in \in ReplayInputs, ts \in Times :
            /\ event_count(traces["a"]) < MaxEvents
            /\ AddEvent("a", i, in, ts)

\* Targets handed to jump: below the tape, on it, at its end and beyond
JumpTargets == (0 - 1)..(MaxEvents + 1)

\* Queries handed to search
SearchQueries == {"TOOL", "t "}

Next ==
    \/ RecordA
    \/ Construct
    \/ Step
    \/ StepBack
    \/ HasNext
    \/ HasPrev
    \/ Peek
    \/ \E target \in JumpTargets : Jump(target)
    \/ Reset
    \/ CurrentSpanEvents
    \/ \E query \in SearchQueries : Search(query)

Spec == Init /\ [][Next]_vars

\* A call of Recorder.event on the recorder of the session in progress; a
\* span "default" starts at the earliest reading of the clock
RecordDiff(t) ==
    /\ pc = "rec_" \o t
    /\ event_count(traces[t]) < MaxSessionEvents
    /\ event_count(traces["a"]) + event_count(traces["b"]) < MaxDiffEvents
    /\ \E in \in DiffInputs, ts \in Times : RecorderEvent(t, in, 0, ts)

NextDiff ==
    \/ RecordDiff("a")
    \/ DiffSelf
    \/ NextSession
    \/ RecordDiff("b")
    \/ Diff

SpecDiff == Init /\ [][NextDiff]_vars

-----------------------------------------------------------------------------
(* Sessions of raw Recorder.event calls with arbitrary payloads, compared *)

\* The compared field of a payload: absent, empty or set
FieldValues(key, value) ==
    { EmptyDict, Dict1(key, ""), Dict1(key, value) }

\* Payloads handed to Recorder.event(event_type, data): the three compared
\* types with their field absent, empty or set, and the five other types with
\* no payload or one holding all three compared keys
PayInputs ==
    {[event_type |-> "tool_call", data |-> d] :
        d \in FieldValues("tool", "search")}
    \cup {[event_type |-> "llm_response", data |-> d] :
        d \in FieldValues("content", "hi")}
    \cup {[event_type |-> "decision", data |-> d] :
        d \in FieldValues("choice", "go")}
    \cup {[event_type |-> type, data |-> d] :
        type \in {"llm_request", "tool_result", "state_change", "error",
                  "log"},
        d \in {EmptyDict,
               << <<"tool", "search">>, <<"content", "hi">>,
                  <<"choice", "go">> >>}}

\* Recorder.event(event_type, data) on the recorder of the session in
\* progress, outside any span block; the clock reads 0 throughout
RecordPay(t) ==
    /\ pc = "rec_" \o t
    /\ event_count(traces[t]) < MaxPayEvents
    /\ \E in \in PayInputs : RecorderEvent(t, in, 0, 0)

\* The first session ends and the second one starts
NextPaySession ==
    /\ pc = "rec_a"
    /\ pc' = "rec_b"
    /\ UNCHANGED <<traces, recorder, engineVars, diff, ioVars>>

NextPay ==
    \/ RecordPay("a")
    \/ NextPaySession
    \/ RecordPay("b")
    \/ Diff

SpecPay == Init /\ [][NextPay]_vars

-----------------------------------------------------------------------------
(* Traces loaded from files merged from several sources, compared *)

\* The event_ids found in the merged files: ids of different sources collide
MergeIds == {"x", "y"}

\* The header line of the merged file of trace t
MergeHeader(t) ==
    [type |-> "trace_header", trace_id |-> t, name |-> "merged",
     start_time |-> 0, end_time |-> <<MaxTime>>, metadata |-> EmptyDict]

\* The n-th span line of a merged file: a span holding one event
MergeSpan(n, type, ts, id) ==
    [type |-> "span", name |-> ReplaySpanName(n), span_id |-> <<"m", n>>,
     parent_id |-> Unset, start_time |-> 0, end_time |-> <<MaxTime>>,
     events |-> << [event_type |-> type, timestamp |-> ts,
                    data |-> EmptyDict, event_id |-> id] >>,
     metadata |-> EmptyDict]

\* The span lines that can stand as n-th span line of a merged file
MergeLines(n) ==
    {JsonLine(MergeSpan(n, type, ts, id)) :
        type \in {"tool_call", "log"}, ts \in {0, MaxTime}, id \in MergeIds}

\* The merged files of trace t with n span lines: the header, then the lines
RECURSIVE MergedFilesOf(_, _)
MergedFilesOf(t, n) ==
    IF n = 0 THEN { <<JsonLine(MergeHeader(t))>> }
    ELSE {Append(f, line) :
             f \in MergedFilesOf(t, n - 1), line \in MergeLines(n)}

\* The merged files of trace t: up to MaxMergeSpans span lines
MergedFiles(t) == UNION {MergedFilesOf(t, n) : n \in 0..MaxMergeSpans}

InitMerge ==
    /\ traces = [t \in TraceIds |-> Trace(t, "agent-run", 0)]
    /\ recorder = [t \in TraceIds |-> Recorder(FALSE)]
    /\ file = << >>
    /\ loaded = << >>
    /\ pc = "load_a"
    /\ flat = << >>
    /\ position = 0
    /\ lastOp = "none" /\ lastArg = 0 /\ prevPos = 0 /\ result = << >>
    /\ stepping = FALSE /\ stepLog = << >>
    /\ diff = [trace_a_id |-> "a", trace_b_id |-> "a", divergences |-> << >>,
               summary |-> << >>]

\* Trace.load(path) on the merged file of trace t
LoadMerged(t, next) ==
    /\ pc = "load_" \o t
    /\ pc' = next
    /\ \E lines \in MergedFiles(t) :
          traces' = [traces EXCEPT ![t] = load(lines)]
    /\ UNCHANGED <<recorder, engineVars, diff, ioVars>>

\* diff_traces(trace_a, trace_b) is called on the two loaded traces
DiffMerged ==
    /\ pc = "merged"
    /\ pc' = "diffed"
    /\ diff' = diff_traces(traces["a"], traces["b"])
    /\ UNCHANGED <<traces, recorder, engineVars, ioVars>>

NextMerge ==
    \/ LoadMerged("a", "load_b")
    \/ LoadMerged("b", "merged")
    \/ DiffMerged

SpecMerge == InitMerge /\ [][NextMerge]_vars

-----------------------------------------------------------------------------
(* SpecRec: a session of one Recorder with an output path, then the file it *)
(* wrote is loaded and replayed                                             *)

\* Payloads handed to Recorder.event in the session
RecInputs ==
    { [event_type |-> "tool_call",    data |-> Dict1("tool", "search")],
      [event_type |-> "llm_response", data |-> Dict1("content", "hi")] }

\* An exception a block body raises
BodyError == Raise("RuntimeError", "body")

InitRec ==
    /\ traces = [t \in TraceIds |-> Trace(t, "agent-run", 0)]
    /\ recorder = [t \in TraceIds |-> Recorder(t = "a")]
    /\ pc = "rec_a"
    /\ flat = << >>
    /\ position = 0
    /\ lastOp = "none" /\ lastArg = 0 /\ prevPos = 0 /\ result = << >>
    /\ stepping = FALSE /\ stepLog = << >>
    /\ diff = [trace_a_id |-> "a", trace_b_id |-> "a", divergences |-> << >>,
               summary |-> << >>]
    /\ file = << >>
    /\ loaded = << >>

\* `with recorder.span(name):` is entered
RecEnter ==
    /\ pc = "rec_a"
    /\ Len(traces["a"].spans) < MaxRecSpans
    /\ RecorderSpan("a", ReplaySpanName(Len(traces["a"].spans) + 1), 0)
    /\ UNCHANGED pc

\* The readings of time.time() a block is left at: spans are entered at the
\* earliest reading and, while the session records, left at the latest one;
\* a block left after Recorder.finish is left at either, so that the span's
\* end_time is stamped anew with the reading of finish or with another one
ExitReadings == IF pc = "rec_a" THEN {MaxTime} ELSE {0, MaxTime}

\* The body of the innermost block returns (exc is Unset) or raises exc, and
\* the block is left, ts being the reading of time.time(): result holds the
\* exception that goes on to the caller.  A block is left whenever its body
\* ends, also after Recorder.finish was called inside it.
RecExit ==
    /\ recorder["a"].blocks # << >>
    /\ \E exc \in {Unset, BodyError}, ts \in ExitReadings :
          /\ RecorderSpanExit("a", ts)
          /\ result' = exc
    /\ UNCHANGED pc

\* A call of Recorder.event: start is the reading of time.time() for a span
\* "default", ts the one for the event, each the earliest or the latest one
RecEvent ==
    /\ pc = "rec_a"
    /\ event_count(traces["a"]) < MaxRecEvents
    /\ \E in \in RecInputs, start \in {0, MaxTime}, ts \in {0, MaxTime} :
          RecorderEvent("a", in, start, ts)

\* The readings of time.time() one call of Trace.close takes for n spans: ts
\* for the trace, closes[i] for span number i, the clock going from the
\* earliest to the latest reading at some point of the call or not at all
CloseReadings(n) ==
    {r \in [ts : {0, MaxTime}, closes : [1..n -> {0, MaxTime}]] :
        /\ n > 0 => r.ts <= r.closes[1]
        /\ \A i \in 1..(n - 1) : r.closes[i] <= r.closes[i + 1]}

\* Recorder.finish: the trace is closed and, with an output path, saved
Finish ==
    /\ pc = "rec_a"
    /\ pc' = "finished"
    /\ \E r \in CloseReadings(Len(traces["a"].spans)) :
          LET closed == trace_close(traces["a"], r.ts, r.closes) IN
          /\ traces' = [traces EXCEPT !["a"] = closed]
          /\ file' = IF recorder["a"].output_path THEN save(closed) ELSE file
    /\ UNCHANGED <<recorder, engineVars, diff, loaded>>

\* ReplayEngine.from_file(path) on the file the session wrote:
\* cls(Trace.load(path)); an exception of load leaves the call
FromFile ==
    /\ pc = "finished"
    /\ recorder["a"].output_path
    /\ pc' = "loaded"
    /\ loaded' = load(file)
    /\ IF IsRaised(load(file))
       THEN UNCHANGED <<flat, position>>
       ELSE flat' = BuildFlatList(load(file)) /\ position' = 0
    /\ lastOp' = "from_file"
    /\ UNCHANGED <<traces, recorder, lastArg, prevPos, result, stepping,
                   stepLog, diff, file>>

NextRec ==
    \/ RecEnter
    \/ RecExit
    \/ RecEvent
    \/ Finish
    \/ FromFile

SpecRec == InitRec /\ [][NextRec]_vars

-----------------------------------------------------------------------------
(* SpecLoad: Trace.load on a trace file of any origin *)

\* The records a line of the file may hold
FullHeader ==
    [type |-> "trace_header", trace_id |-> "x", name |-> "n", start_time |-> 1,
     end_time |-> Unset, metadata |-> EmptyDict]
FullSpan ==
    [type |-> "span", name |-> "s", span_id |-> <<"x", 1>>,
     parent_id |-> Unset, start_time |-> 0, end_time |-> <<1>>,
     events |-> << [event_type |-> "tool_call", timestamp |-> 0,
                    data |-> Dict1("tool", "search"), event_id |-> <<"x", 1, 1>>] >>,
     metadata |-> EmptyDict]
BareSpan == [type |-> "span", name |-> "t", span_id |-> <<"x", 2>>,
             start_time |-> 1]
BadEventSpan ==
    [type |-> "span", name |-> "s", span_id |-> <<"x", 3>>, start_time |-> 0,
     events |-> << [event_type |-> "tool", timestamp |-> 0] >>]

FileLines ==
    { JsonLine(FullHeader),
      JsonLine(Pop(FullHeader, "trace_id")),
      JsonLine(Pop(FullHeader, "name")),
      JsonLine(FullSpan),
      JsonLine(BareSpan),
      JsonLine(Pop(BareSpan, "name")),
      JsonLine(BadEventSpan),
      JsonLine([type |-> "future", name |-> "q"]),
      JsonLine([name |-> "q"]),
      BlankLine }

\* The files: up to MaxLines lines
Files == UNION {[1..n -> FileLines] : n \in 0..MaxLines}

InitLoad ==
    /\ traces = [t \in TraceIds |-> Trace(t, "agent-run", 0)]
    /\ recorder = [t \in TraceIds |-> Recorder(FALSE)]
    /\ pc = "file"
    /\ flat = << >>
    /\ position = 0
    /\ lastOp = "none" /\ lastArg = 0 /\ prevPos = 0 /\ result = << >>
    /\ stepping = FALSE /\ stepLog = << >>
    /\ diff = [trace_a_id |-> "a", trace_b_id |-> "a", divergences |-> << >>,
               summary |-> << >>]
    /\ file \in Files
    /\ loaded = << >>

\* Trace.load(path) on the file
LoadFile ==
    /\ pc = "file"
    /\ pc' = "loaded"
    /\ loaded' = load(file)
    /\ lastOp' = "load"
    /\ UNCHANGED <<traces, recorder, flat, position, lastArg, prevPos, result,
                   stepping, stepLog, diff, file>>

NextLoad == LoadFile

SpecLoad == InitLoad /\ [][NextLoad]_vars

-----------------------------------------------------------------------------
(* Properties of trace.py and replay.py, checked under Spec *)

\* The place of an event object in a trace: <<span number, number in span>>
Places(trace) ==
    UNION {{<<n, j>> : j \in 1..Len(trace.spans[n].events)} :
              n \in 1..Len(trace.spans)}

\* Place x comes before place y in the flattening order: spans in storage
\* order, events in per-span order
PlaceBefore(x, y) == x[1] < y[1] \/ (x[1] = y[1] /\ x[2] < y[2])

EventAt(trace, x) == trace.spans[x[1]].events[x[2]]

\* C1: all_events() returns every event of every span exactly once, in
\* non-decreasing timestamp order, and events with equal timestamps keep
\* their flattening order (spans in storage order, events in span order).
C1_AllEventsStableSorted ==
    \A t \in TraceIds :
        LET trace == traces[t]
            r == all_events(trace)
            \* where in the result the event object at place x appears
            At(x) == {i \in 1..Len(r) : r[i] = EventAt(trace, x)}
        IN /\ Len(r) = event_count(trace)
           /\ \A x \in Places(trace) : Cardinality(At(x)) = 1
           /\ \A i \in 1..(Len(r) - 1) : r[i].timestamp <= r[i + 1].timestamp
           /\ \A x, y \in Places(trace) :
                (/\ PlaceBefore(x, y)
                 /\ EventAt(trace, x).timestamp = EventAt(trace, y).timestamp)
                => \A i \in At(x), k \in At(y) : i < k

\* C1 witness: a three-event trace over two spans whose canonical order is not
\* its storage order and in which two events of different spans share a
\* timestamp
C1_Witness ==
    LET trace == traces["a"]
        r == all_events(trace)
    IN /\ Len(trace.spans) = 2
       /\ Len(r) = 3
       /\ r # ExtendAll(trace.spans, Len(trace.spans))
       /\ \E i \in 1..2 : /\ r[i].timestamp = r[i + 1].timestamp
                          /\ r[i].event_id[2] # r[i + 1].event_id[2]

\* C2: the tape has the length of all_events() and the same event at every
\* index, and the span of each pair is the span whose events hold the event.
C2_TapeIsAllEvents ==
    pc = "replay" =>
        LET trace == traces["a"]
            r == all_events(trace)
        IN /\ Len(flat) = Len(r)
           /\ \A i \in 1..Len(flat) :
                /\ flat[i].event = r[i]
                /\ flat[i].span \in 1..Len(trace.spans)
                /\ \E j \in 1..Len(trace.spans[flat[i].span].events) :
                      trace.spans[flat[i].span].events[j] = flat[i].event

\* C2 witness: a tape of three pairs over two spans that is not in storage
\* order
C2_Witness ==
    /\ pc = "replay"
    /\ Len(flat) = 3
    /\ flat[1].span = 2
    /\ flat[3].span = 1
    /\ flat # AllPairs(traces["a"], Len(traces["a"].spans))

\* C3: whatever operations were called, 0 <= position <= total_steps, and
\* total_steps is the length of the tape built from the trace.
C3_CursorInRange ==
    /\ 0 <= position
    /\ position <= total_steps
    /\ pc = "replay" => total_steps = Len(BuildFlatList(traces["a"]))
    /\ pc = "replay" => total_steps = event_count(traces["a"])

\* C3 witness: a jump below the tape was called with the cursor at the end
C3_Witness ==
    /\ lastOp = "jump"
    /\ lastArg < 0
    /\ total_steps = 3
    /\ position = total_steps

\* C4: steps from position 0 return the tape entries 0, 1, ... in order, each
\* once, advancing the cursor by one; a step at the end returns None and
\* leaves the cursor at total_steps.
C4_StepThrough ==
    /\ stepping => stepLog = SubSeq(flat, 1, position)
    /\ lastOp = "step" =>
        IF prevPos < total_steps
        THEN position = prevPos + 1 /\ result = <<flat[prevPos + 1]>>
        ELSE position = total_steps /\ result = << >>

\* C4 witness: three steps from 0 over a tape of three, then one more step
C4_Witness ==
    /\ stepping
    /\ total_steps = 3
    /\ Len(stepLog) = 3
    /\ lastOp = "step"
    /\ prevPos = 3
    /\ result = << >>

\* C5: jump(k) with 0 <= k < total_steps puts the cursor at k and returns
\* tape[k], which is also what peek() then returns; any other k returns None.
C5_Jump ==
    lastOp = "jump" =>
        IF 0 <= lastArg /\ lastArg < total_steps
        THEN /\ position = lastArg
             /\ result = <<flat[lastArg + 1]>>
             /\ PeekValue(position) = <<flat[lastArg + 1]>>
        ELSE result = << >>

\* C5 witness: a jump to entry 1 of a tape of three from the end of the tape
C5_Witness ==
    /\ lastOp = "jump"
    /\ total_steps = 3
    /\ prevPos = 3
    /\ lastArg = 1
    /\ position = 1
    /\ result # << >>

\* C6: a jump with an out-of-range target leaves the cursor where it was.
C6_FailedJumpKeepsCursor ==
    (lastOp = "jump" /\ ~(0 <= lastArg /\ lastArg < total_steps))
        => position = prevPos

\* C6 witness: jump(total_steps) called with the cursor in the middle
C6_Witness ==
    /\ lastOp = "jump"
    /\ total_steps = 3
    /\ lastArg = total_steps
    /\ prevPos = 2
    /\ position = 2

\* C7: step_back() at 0 returns None and stays at 0; at p > 0 it moves to
\* p - 1 and returns tape[p - 1]; so after a successful step() it returns the
\* pair step() returned and restores the position step() started from.
C7_StepBack ==
    [][lastOp' = "step_back" =>
          /\ IF position = 0
             THEN position' = 0 /\ result' = << >>
             ELSE position' = position - 1 /\ result' = <<flat[position]>>
          /\ (lastOp = "step" /\ result # << >>)
                => (result' = result /\ position' = prevPos)
      ]_vars

\* C7 witness: step_back was called at the end of a tape of three
C7_Witness ==
    /\ lastOp = "step_back"
    /\ total_steps = 3
    /\ prevPos = 3
    /\ position = 2
    /\ result = <<flat[3]>>

\* The smaller of two integers
Min(x, y) == IF x <= y THEN x ELSE y

\* The span_id of the span of a tape pair
PairSpanId(p) == traces["a"].spans[p.span].span_id

\* C16: current_span_events() returns the tape pairs whose span_id is that of
\* the pair at the cursor, or at the last tape location when the cursor is
\* past the end of a non-empty tape; it returns the empty list only for an
\* empty tape.
C16_CurrentSpanEvents ==
    lastOp = "current_span_events" =>
        IF flat = << >> THEN result = << >>
        ELSE LET at == Min(position, total_steps - 1) IN
             /\ result = SelectSeq(flat, LAMBDA p :
                            PairSpanId(p) = PairSpanId(flat[at + 1]))
             /\ result # << >>

\* The query is a case-insensitive substring of the text
ContainsIgnoringCase(text, query) == Contains(lower(text), lower(query))

\* One of the three fields of the tape pair contains the query
FieldContains(p, query) ==
    \/ ContainsIgnoringCase(Chars(traces["a"].spans[p.span].name), Chars(query))
    \/ ContainsIgnoringCase(Chars(p.event.event_type), Chars(query))
    \/ ContainsIgnoringCase(DictRepr(p.event.data), Chars(query))

\* C17: search(query) returns, in ascending order, exactly the tape indices
\* at which the span name, the event type label or the stringified payload
\* contains the query as a case-insensitive substring.
C17_SearchByField ==
    lastOp = "search" =>
        result = SelectSeq([i \in 1..Len(flat) |-> i - 1],
                           LAMBDA k : FieldContains(flat[k + 1], lastArg))

\* The operations of the engine that only look
Lookers == {"peek", "search", "current_span_events", "has_next", "has_prev"}

\* C18: peek() returns tape[position] below total_steps and None at
\* total_steps; peek, search, current_span_events, has_next and has_prev
\* leave the cursor and the tape as they are; no operation of the engine
\* changes the trace.
C18_LookingChangesNothing ==
    [][(pc = "replay" /\ pc' = "replay") =>
          /\ traces' = traces
          /\ lastOp' \in Lookers => (position' = position /\ flat' = flat)
          /\ lastOp' = "peek" =>
                result' = IF position < total_steps THEN <<flat[position + 1]>>
                                                    ELSE << >>
      ]_vars

\* C18 witness: peek was called in the middle of a tape of three and returned
\* the pair there
C18_Witness ==
    /\ pc = "replay"
    /\ lastOp = "peek"
    /\ total_steps = 3
    /\ position = 1
    /\ prevPos = 1
    /\ result = <<flat[2]>>

-----------------------------------------------------------------------------
(* Properties of diff.py, checked under SpecDiff *)

\* The canonical event sequences of the two traces the DiffResult is about
CanonA == all_events(traces[diff.trace_a_id])
CanonB == all_events(traces[diff.trace_b_id])

\* The payload field diff_traces compares for an event's type, a missing one
\* read as dict.get reads it; no field for the other types
ComparedField(e) ==
    CASE e.event_type = "tool_call"    -> DataGet(e.data, "tool", None)
      [] e.event_type = "llm_response" -> DataGet(e.data, "content", "")
      [] e.event_type = "decision"     -> DataGet(e.data, "choice", None)
      [] OTHER                         -> None

\* Two events agree in event type and in the compared payload field
Agree(ea, eb) ==
    ea.event_type = eb.event_type /\ ComparedField(ea) = ComparedField(eb)

\* The sequences a and b have equal length and agree at every index
AgreeThroughout(a, b) ==
    Len(a) = Len(b) /\ \A i \in 1..Len(a) : Agree(a[i], b[i])

\* C8: a trace compared with itself is identical with no divergence; so are
\* two traces whose canonical sequences have equal length and agree at every
\* index in event type and compared payload field, whatever their ids,
\* timestamps and span names.
C8_DiffIdentity ==
    pc = "diffed" =>
        LET a == CanonA
            b == CanonB
        IN /\ diff.trace_a_id = diff.trace_b_id => identical(diff)
           /\ AgreeThroughout(a, b) => identical(diff)

\* C8 witness: two separately recorded traces of two events each, agreeing at
\* both indices while their storage orders, timestamps and span names differ,
\* were compared
C8_Witness ==
    /\ pc = "diffed"
    /\ diff.trace_a_id = "a" /\ diff.trace_b_id = "b"
    /\ Len(CanonA) = 2
    /\ AgreeThroughout(CanonA, CanonB)
    /\ traces["a"].spans[1].name # traces["b"].spans[1].name
    /\ CanonA[1].event_type # CanonA[2].event_type
    /\ CanonA[1].event_id[3] = 2
    /\ CanonB[1].event_id[3] = 1
    /\ identical(diff)

\* Python indices at which exactly one of two sequences of lengths m and n
\* has an event
TailIndices(m, n) == IF m <= n THEN m..(n - 1) ELSE n..(m - 1)

\* C9: the divergences of severity "warning" are one at each index from the
\* shorter length up to the longer, each with the longer trace's event at
\* that index and no event on the other side; if B is A plus one trailing
\* event there is exactly one divergence and it is a warning.
C9_ExtraEvents ==
    pc = "diffed" =>
        LET a == CanonA
            b == CanonB
            divs == diff.divergences
            tail == TailIndices(Len(a), Len(b))
            warn == {k \in 1..Len(divs) : divs[k].severity = "warning"}
            at(i) == {k \in 1..Len(divs) : divs[k].position = i}
        IN /\ {divs[k].position : k \in warn} = tail
           /\ \A i \in tail :
                /\ Cardinality(at(i)) = 1
                /\ at(i) \subseteq warn
                /\ \A k \in at(i) :
                     IF i < Len(a)
                     THEN /\ divs[k].trace_a_event = <<a[i + 1]>>
                          /\ divs[k].trace_b_event = << >>
                     ELSE /\ divs[k].trace_a_event = << >>
                          /\ divs[k].trace_b_event = <<b[i + 1]>>
           /\ (Len(b) = Len(a) + 1 /\ AgreeThroughout(a, SubSeq(b, 1, Len(a))))
              => (/\ Len(divs) = 1
                  /\ divs[1].severity = "warning"
                  /\ divs[1].position = Len(a))

\* C9 witness: trace B is trace A's single event plus one trailing event that
\* was recorded first but carries the later timestamp, and the diff holds one
\* divergence
C9_Witness ==
    /\ pc = "diffed"
    /\ Len(CanonA) = 1 /\ Len(CanonB) = 2
    /\ Agree(CanonA[1], CanonB[1])
    /\ Len(diff.divergences) = 1
    /\ diff.divergences[1].trace_b_event = <<CanonB[2]>>
    /\ diff.divergences[1].trace_a_event = << >>
    /\ CanonB[2].event_id[3] = 1

\* The sequences a and b have equal length and agree at every index but k,
\* where both events are tool_call events with different `tool` values
OnlyToolDiffersAt(a, b, k) ==
    /\ Len(a) = Len(b)
    /\ k \in 1..Len(a)
    /\ a[k].event_type = "tool_call"
    /\ b[k].event_type = "tool_call"
    /\ DataGet(a[k].data, "tool", None) # DataGet(b[k].data, "tool", None)
    /\ \A i \in 1..Len(a) : i # k => Agree(a[i], b[i])

\* C10: when the two canonical sequences differ only in the `tool` of one
\* tool_call event, the diff has exactly one divergence, at that index and
\* critical; identical is false and critical_count is 1.
C10_ToolDivergence ==
    pc = "diffed" =>
        LET a == CanonA
            b == CanonB
        IN \A k \in 1..Len(a) :
              OnlyToolDiffersAt(a, b, k) =>
                  /\ Len(diff.divergences) = 1
                  /\ diff.divergences[1].position = k - 1
                  /\ diff.divergences[1].severity = "critical"
                  /\ ~identical(diff)
                  /\ critical_count(diff) = 1

\* C10 witness: two traces of two events each differing only in the tool of
\* the second canonical event were compared
C10_Witness ==
    /\ pc = "diffed"
    /\ Len(CanonA) = 2
    /\ OnlyToolDiffersAt(CanonA, CanonB, 2)
    /\ CanonA[1].event_type = "llm_response"
    /\ Len(diff.divergences) = 1

-----------------------------------------------------------------------------
(* Properties of saving, loading and recording, checked under SpecRec *)

\* C11: the trace loaded from the file a closed trace was saved to has the
\* same trace_id and name, the same spans in the same order and, in every
\* span, the same number of events with the same types and data in order.
C11_SaveLoadRoundTrip ==
    pc = "loaded" =>
        LET trace == traces["a"] IN
        /\ ~IsRaised(loaded)
        /\ loaded.trace_id = trace.trace_id
        /\ loaded.name = trace.name
        /\ Len(loaded.spans) = Len(trace.spans)
        /\ \A i \in 1..Len(trace.spans) :
              LET sa == trace.spans[i]
                  sl == loaded.spans[i]
              IN /\ sl.span_id = sa.span_id
                 /\ sl.name = sa.name
                 /\ Len(sl.events) = Len(sa.events)
                 /\ \A j \in 1..Len(sa.events) :
                       /\ sl.events[j].event_type = sa.events[j].event_type
                       /\ sl.events[j].data = sa.events[j].data

\* C11 witness: a closed trace of two spans with differently typed events was
\* saved and loaded
C11_Witness ==
    /\ pc = "loaded"
    /\ traces["a"].end_time # Unset
    /\ Len(traces["a"].spans) = 2
    /\ Len(traces["a"].spans[1].events) = 1
    /\ Len(traces["a"].spans[2].events) = 1
    /\ traces["a"].spans[1].events[1].event_type
          # traces["a"].spans[2].events[1].event_type
    /\ ~IsRaised(loaded)
    /\ Len(loaded.spans) = 2

\* C12: the tape of the engine built from the reloaded file equals the tape
\* of an engine built from the trace itself: the same length and at every
\* index the same event (event_id, type, timestamp, data) and a span of the
\* same span_id.
C12_ReplayDeterministic ==
    pc = "loaded" =>
        LET trace == traces["a"]
            tape  == BuildFlatList(trace)
        IN /\ ~IsRaised(loaded)
           /\ Len(flat) = Len(tape)
           /\ \A i \in 1..Len(tape) :
                 /\ flat[i].event.event_id = tape[i].event.event_id
                 /\ flat[i].event.event_type = tape[i].event.event_type
                 /\ flat[i].event.timestamp = tape[i].event.timestamp
                 /\ flat[i].event.data = tape[i].event.data
                 /\ loaded.spans[flat[i].span].span_id
                       = trace.spans[tape[i].span].span_id

\* C12 witness: the reloaded tape holds two events of different spans with
\* one timestamp
C12_Witness ==
    /\ pc = "loaded"
    /\ Len(flat) = 2
    /\ flat[1].event.timestamp = flat[2].event.timestamp
    /\ flat[1].span # flat[2].span

\* C15: once Trace.close has returned, the trace has its end_time and no
\* span stored in it is open, whatever spans were opened, closed or left open
\* before; so it is after Recorder.finish.
C15_CloseClosesAll ==
    pc \in {"finished", "loaded"} =>
        /\ traces["a"].end_time # Unset
        /\ \A i \in 1..Len(traces["a"].spans) :
              traces["a"].spans[i].end_time # Unset

\* C15 witness: finish was called on a trace of two spans, one closed before
\* by its block's exit and one whose block was still open
C15_Witness ==
    /\ pc = "finished"
    /\ Len(traces["a"].spans) = 2
    /\ Len(recorder["a"].blocks) = 1
    /\ event_count(traces["a"]) = 2
    /\ traces["a"].end_time # Unset

\* The step enters a Recorder.span block
Enters == Len(recorder'["a"].blocks) = Len(recorder["a"].blocks) + 1

\* The step leaves a Recorder.span block
Leaves == Len(recorder'["a"].blocks) = Len(recorder["a"].blocks) - 1

\* The span_id of the recorder's current span, Unset without one
CurrentSpanId ==
    IF recorder["a"]._current_span = 0 THEN Unset
    ELSE traces["a"].spans[recorder["a"]._current_span].span_id

\* C19: a span opened through Recorder.span is appended with parent_id equal
\* to the span_id of the span current when it was opened, None without one,
\* and keeps it; so of two blocks nested directly the inner span is stored
\* after the outer one with inner.parent_id = outer.span_id.
C19_ParentIsCurrentSpan ==
    /\ [][/\ Enters =>
               /\ Len(traces'["a"].spans) = Len(traces["a"].spans) + 1
               /\ traces'["a"].spans[Len(traces'["a"].spans)].parent_id
                     = CurrentSpanId
          /\ \A i \in 1..Len(traces["a"].spans) :
                traces'["a"].spans[i].parent_id = traces["a"].spans[i].parent_id
         ]_vars
    /\ [](\A k \in 1..(Len(recorder["a"].blocks) - 1) :
             LET outer == recorder["a"].blocks[k].s
                 inner == recorder["a"].blocks[k + 1].s
             IN /\ outer < inner
                /\ traces["a"].spans[inner].parent_id
                      = traces["a"].spans[outer].span_id)

\* C19 witness: an inner block is open inside an outer block, each holding an
\* event
C19_Witness ==
    /\ pc = "rec_a"
    /\ Len(recorder["a"].blocks) = 2
    /\ Len(traces["a"].spans) = 2
    /\ traces["a"].spans[2].parent_id = traces["a"].spans[1].span_id
    /\ traces["a"].spans[1].parent_id = Unset
    /\ Len(traces["a"].spans[1].events) = 1
    /\ Len(traces["a"].spans[2].events) = 1

\* C20: when a Recorder.span block is left, by return or by an exception, its
\* span is closed and the current span is the one (or None) that was current
\* when the block was entered; an event recorded with a current span goes to
\* that span; and the current span is always the top of the span stack.
C20_BlockExitRestores ==
    /\ [][/\ Enters =>
               recorder'["a"].blocks[Len(recorder'["a"].blocks)].prev
                  = recorder["a"]._current_span
          /\ Leaves =>
               LET frame == recorder["a"].blocks[Len(recorder["a"].blocks)] IN
               /\ traces'["a"].spans[frame.s].end_time # Unset
               /\ recorder'["a"]._current_span = frame.prev
          /\ (event_count(traces'["a"]) = event_count(traces["a"]) + 1
                 /\ recorder["a"]._current_span # 0) =>
               LET c == recorder["a"]._current_span IN
               /\ Len(traces'["a"].spans) = Len(traces["a"].spans)
               /\ Len(traces'["a"].spans[c].events)
                     = Len(traces["a"].spans[c].events) + 1
         ]_vars
    /\ [](LET stack == recorder["a"]._span_stack IN
          recorder["a"]._current_span
              = IF stack = << >> THEN 0 ELSE stack[Len(stack)])

\* C20 witness: the body of an inner block raised, the block was left, and an
\* event was then recorded in the outer span
C20_Witness ==
    /\ pc = "rec_a"
    /\ result = BodyError
    /\ Len(recorder["a"].blocks) = 1
    /\ recorder["a"]._current_span = 1
    /\ Len(traces["a"].spans) = 2
    /\ traces["a"].spans[2].end_time # Unset
    /\ traces["a"].spans[1].end_time = Unset
    /\ Len(traces["a"].spans[2].events) = 1
    /\ Len(traces["a"].spans[1].events) = 1
    /\ traces["a"].spans[1].events[1].timestamp
          > traces["a"].spans[2].events[1].timestamp

-----------------------------------------------------------------------------
(* Properties of Trace.load, checked under SpecLoad *)

\* The kind of the record on a line: the value of its "type"
IsRecord(line, type) == ~line.blank /\ Get(line.json, "type", None) = type

\* A header or span record without the key
Lacks(line, type, key) == IsRecord(line, type) /\ key \notin DOMAIN line.json

\* A span record Span.from_dict does not take: a required key is missing or
\* an event is malformed
MalformedSpan(line) ==
    /\ IsRecord(line, "span")
    /\ \/ \E key \in {"name", "span_id", "start_time"} : key \notin DOMAIN line.json
       \/ /\ "events" \in DOMAIN line.json
          /\ \E j \in 1..Len(line.json.events) :
                LET e == line.json.events[j] IN
                \/ \E key \in {"event_type", "timestamp"} : key \notin DOMAIN e
                \/ e.event_type \notin EventType

\* The lines of the file holding a record of the type, in file order
RecordsOf(type) == SelectSeq(file, LAMBDA line : IsRecord(line, type))

\* C13: a header record lacking trace_id or name, or a span record lacking
\* name, makes the load fail with a FormatError, and it fails as a whole: an
\* exception leaves the call and no Trace is returned.
C13_MalformedFailsWithFormatError ==
    (/\ pc = "loaded"
     /\ \E n \in 1..Len(file) :
           \/ Lacks(file[n], "trace_header", "trace_id")
           \/ Lacks(file[n], "trace_header", "name")
           \/ Lacks(file[n], "span", "name"))
    => (IsRaised(loaded) /\ loaded.raised = "FormatError")

\* C14: for a file of well-formed records the spans of the loaded trace are
\* the records of type "span" in file order, whatever blank lines and records
\* of another type lie between them; without a header record the trace has
\* the default trace_id and name, start_time 0 and empty metadata.
C14_TolerantLoad ==
    (pc = "loaded" /\ \A n \in 1..Len(file) : ~MalformedSpan(file[n])) =>
        LET records == RecordsOf("span") IN
        /\ ~IsRaised(loaded)
        /\ Len(loaded.spans) = Len(records)
        /\ \A i \in 1..Len(records) :
              /\ loaded.spans[i].name = records[i].json.name
              /\ loaded.spans[i].span_id = records[i].json.span_id
              /\ loaded.spans[i].start_time = records[i].json.start_time
              /\ Len(loaded.spans[i].events)
                    = Len(Get(records[i].json, "events", << >>))
        /\ RecordsOf("trace_header") = << >> =>
              /\ loaded.trace_id = LoadedTraceId
              /\ loaded.name = "unnamed"
              /\ loaded.start_time = 0
              /\ loaded.metadata = EmptyDict

\* C14 witness: a file without header whose two span records are separated
\* by a blank line and a record of an unrecognized type was loaded
C14_Witness ==
    /\ pc = "loaded"
    /\ Len(file) = 4
    /\ IsRecord(file[1], "span")
    /\ file[2].blank
    /\ IsRecord(file[3], "future")
    /\ IsRecord(file[4], "span")
    /\ file[1] # file[4]
    /\ ~IsRaised(loaded)
    /\ Len(loaded.spans) = 2
    /\ loaded.name = "unnamed"

-----------------------------------------------------------------------------
\* The indices at which both compared traces have an event
SharedIndices == 0..(Min(Len(CanonA), Len(CanonB)) - 1)

\* The places in the list of divergences of those reported for index i
DivergencesAt(i) ==
    {k \in 1..Len(diff.divergences) : diff.divergences[k].position = i}

\* C21: at an index where both traces have an event and the event types
\* differ, diff_traces emits exactly one divergence; it is critical, refers
\* to both events and is the type divergence, no payload divergence being
\* reported for that index. Over the whole diff there is at most one
\* divergence per index and the positions strictly increase along the list.
C21_TypeDivergence ==
    pc = "diffed" =>
        /\ \A i \in SharedIndices :
              CanonA[i + 1].event_type # CanonB[i + 1].event_type =>
                 /\ Cardinality(DivergencesAt(i)) = 1
                 /\ \A k \in DivergencesAt(i) :
                       LET d == diff.divergences[k] IN
                       /\ d.severity = "critical"
                       /\ d.trace_a_event = <<CanonA[i + 1]>>
                       /\ d.trace_b_event = <<CanonB[i + 1]>>
                       /\ d.description = <<"Event type divergence",
                                            CanonA[i + 1].event_type,
                                            CanonB[i + 1].event_type>>
        /\ \A i \in 0..MaxDiffEvents : Cardinality(DivergencesAt(i)) <= 1
        /\ \A k, m \in 1..Len(diff.divergences) :
              k < m => diff.divergences[k].position
                          < diff.divergences[m].position

\* C21 witness: two divergences were reported, the second one for an index
\* where a tool_call of trace A meets an event of another type of trace B,
\* whose payload has no tool
C21_Witness ==
    /\ pc = "diffed"
    /\ Len(diff.divergences) = 2
    /\ diff.divergences[1].position = 0
    /\ diff.divergences[2].position = 1
    /\ Len(CanonA) >= 2 /\ Len(CanonB) >= 2
    /\ CanonA[2].event_type = "tool_call"
    /\ CanonB[2].event_type # "tool_call"
    /\ diff.divergences[2].severity = "critical"

-----------------------------------------------------------------------------
\* The payload field `key` of an event as stored: << >> when absent, else the
\* value in a tuple
Field(e, key) ==
    IF \E i \in 1..Len(e.data) : e.data[i][1] = key
    THEN <<e.data[CHOOSE i \in 1..Len(e.data) : e.data[i][1] = key][2]>>
    ELSE << >>

\* Both events hold the field and the values are different
PresentAndDifferent(ea, eb, key) ==
    /\ Field(ea, key) # << >>
    /\ Field(eb, key) # << >>
    /\ Field(ea, key)[1] # Field(eb, key)[1]

\* The field diff_traces looks at for an event type, "" for a type without one
ComparedKey(type) ==
    CASE type = "tool_call"    -> "tool"
      [] type = "llm_response" -> "content"
      [] type = "decision"     -> "choice"
      [] OTHER                 -> ""

\* The severity of a payload divergence of an event type
PayloadSeverity(type) == IF type = "llm_response" THEN "info" ELSE "critical"

\* C22: at an index where both events have the same type, a divergence is
\* reported only for tool_call, decision and llm_response events whose
\* compared field (tool, choice, content) is not the same on both sides, and
\* it is reported whenever both hold the field with different values; it is
\* critical for tool and choice and info for content, it refers to both
\* events, and critical_count counts the type, tool and choice divergences
\* only.  Two events of any other type never produce a divergence.
C22_PayloadDivergence ==
    pc = "diffed" =>
        /\ \A i \in SharedIndices :
              LET ea  == CanonA[i + 1]
                  eb  == CanonB[i + 1]
                  key == ComparedKey(ea.event_type)
              IN ea.event_type = eb.event_type =>
                 /\ key = "" => DivergencesAt(i) = {}
                 /\ key # "" /\ Field(ea, key) = Field(eb, key) =>
                       DivergencesAt(i) = {}
                 /\ key # "" /\ PresentAndDifferent(ea, eb, key) =>
                       DivergencesAt(i) # {}
                 /\ \A k \in DivergencesAt(i) :
                       LET d == diff.divergences[k] IN
                       /\ d.severity = PayloadSeverity(ea.event_type)
                       /\ d.trace_a_event = <<ea>>
                       /\ d.trace_b_event = <<eb>>
        /\ critical_count(diff)
              = Cardinality({k \in 1..Len(diff.divergences) :
                    diff.divergences[k].description[1]
                        \in {"Event type divergence", "Different tool called",
                             "Decision divergence"}})

\* C22 witness: two llm_response events with different contents were
\* compared; the one divergence is informational and critical_count is 0
C22_Witness ==
    /\ pc = "diffed"
    /\ Len(CanonA) >= 1 /\ Len(CanonB) >= 1
    /\ CanonA[1].event_type = "llm_response"
    /\ CanonB[1].event_type = "llm_response"
    /\ PresentAndDifferent(CanonA[1], CanonB[1], "content")
    /\ Len(diff.divergences) = 1
    /\ diff.divergences[1].severity = "info"
    /\ critical_count(diff) = 0

\* C22, the critical case reached: two decisions with different choices gave
\* the one critical divergence
C22_WitnessDecision ==
    /\ pc = "diffed"
    /\ Len(CanonA) >= 1 /\ Len(CanonB) >= 1
    /\ CanonA[1].event_type = "decision"
    /\ CanonB[1].event_type = "decision"
    /\ PresentAndDifferent(CanonA[1], CanonB[1], "choice")
    /\ critical_count(diff) = 1

-----------------------------------------------------------------------------
\* The name of the span of the trace that owns the event at index i of the
\* canonical sequence: the span paired with it on the tape
OwnerName(trace, i) == trace.spans[BuildFlatList(trace)[i + 1].span].name

\* C23: for every divergence and each side that has an event, the attached
\* span name is the name of the span of that trace that owns the referenced
\* event, also when event_ids are not unique within the trace; it is
\* "unknown" only if no span contains the event.
C23_SpanOfEvent ==
    pc = "diffed" =>
        \A k \in 1..Len(diff.divergences) :
            LET d == diff.divergences[k] IN
            /\ d.trace_a_event # << >> =>
                  /\ d.trace_a_event = <<CanonA[d.position + 1]>>
                  /\ d.trace_a_span = OwnerName(traces["a"], d.position)
                  /\ d.trace_a_span # "unknown"
            /\ d.trace_b_event # << >> =>
                  /\ d.trace_b_event = <<CanonB[d.position + 1]>>
                  /\ d.trace_b_span = OwnerName(traces["b"], d.position)
                  /\ d.trace_b_span # "unknown"

-----------------------------------------------------------------------------
\* One of the two events lacks the field and the other holds it empty
AbsentAgainstEmpty(ea, eb, key) ==
    \/ Field(ea, key) = << >> /\ Field(eb, key) = <<"">>
    \/ Field(ea, key) = <<"">> /\ Field(eb, key) = << >>

\* C24: diff_traces completes with a result for any payloads, and at an index
\* where both events have the same type, an event lacking the compared field
\* (tool, content, choice) produces no divergence against an event whose
\* field is present but empty.
C24_AbsentFieldIsEmpty ==
    pc = "diffed" =>
        /\ diff.trace_a_id = "a" /\ diff.trace_b_id = "b"
        /\ diff.summary # << >>
        /\ \A i \in SharedIndices :
              LET ea  == CanonA[i + 1]
                  eb  == CanonB[i + 1]
                  key == ComparedKey(ea.event_type)
              IN (/\ ea.event_type = eb.event_type
                  /\ key # ""
                  /\ AbsentAgainstEmpty(ea, eb, key)) =>
                     DivergencesAt(i) = {}

====
